---- MODULE Spec2Model ----
(***************************************************************************)
(* Invoice processor: the /api/extract serverless handler (three versions  *)
(* are kept in the repository), its two provider clients, and the browser  *)
(* side extractInvoice pipeline that rasterizes a file, posts it to the    *)
(* handler and parses the answer.                                          *)
(*                                                                         *)
(* Texts (error messages, model completions) are sequences of tokens, so   *)
(* that concatenation (\o) and containment are computed, not assumed.      *)
(* JSON values that may be a string or an object are tagged records:       *)
(* [t |-> "str", v |-> tokens] or [t |-> "obj", message |-> tokens].       *)
(*                                                                         *)
(* Spec is the handler with the page's extractInvoice around it.           *)
(* ParseSpec calls extractJSON and the coercion on sample completions,     *)
(* RasterSpec calls the rasterizer on sample canvases, MimeSpec calls      *)
(* normalizeMime on sample files; they leave the handler and the page at   *)
(* rest. AppSpec is the App component with its queue, review panel and     *)
(* saved list, extractInvoice being reduced to its awaits; AppFairSpec     *)
(* adds that every extraction ends; BurstSpec has addFiles and removeQueue *)
(* called back to back, without a render after each call.                  *)
(***************************************************************************)
EXTENDS Integers, Sequences, FiniteSets, TLC

VARIABLES
    variant,        \* which version of the handler is deployed
    anthropicKey,   \* process.env.ANTHROPIC_API_KEY ("" when not set)
    geminiKey,      \* process.env.GEMINI_API_KEY ("" when not set)
    cpc,            \* position of extractInvoice in the browser
    file,           \* the file given to extractInvoice
    rasterRuns,     \* rasterizer calls started by extractInvoice, in order
    rawText,        \* the text extractInvoice hands to extractJSON
    clientResult,   \* what extractInvoice returned or threw
    hpc,            \* position of the handler invocation
    source,         \* who sent the request: "client" or "direct"
    req,            \* the HTTP request being handled
    inflight,       \* providers with an upstream fetch not yet answered
    calls,          \* upstream fetches issued by this invocation, in order
    attempts,       \* results of the provider calls that completed, in order
    lastUpstream,   \* the upstream document held by the provider call that
                    \* completed last (its locals are gone once the handler
                    \* has gone on to the next provider)
    log,            \* console output of the handler
    resp,           \* the HTTP response sent by the handler
    unitIn,         \* arguments of a function of the page called on its own
    unitOut,        \* what that call produced
    queue,          \* App state: the entries of the upload queue
    reviewIdx,      \* App state: index of the entry under review, or null
    saved,          \* App state: the saved invoices
    editSavedIdx,   \* App state: index of the saved invoice being edited
    editSavedData,  \* App state: the copy of it the form works on
    rendered,       \* the state the last render of App saw: its handlers
                    \* close over it, queueRef and reviewIdxRef hold it
    tasks,          \* the addFiles and retryExtract calls that are at an await
    pdfjsLib,       \* window.pdfjsLib is defined
    scriptLoads,    \* PDF.js script elements appended to the document
    created,        \* queue entries made so far (each has its own id)
    events,         \* handlers run on behalf of the user so far
    caller          \* who runs the handlers: React for events of the page
                    \* ("page"), or code that calls them back to back

vars == <<variant, anthropicKey, geminiKey, cpc, file, rasterRuns, rawText,
          clientResult, hpc, source, req, inflight, calls, attempts,
          lastUpstream, log, resp, unitIn, unitOut, queue, reviewIdx, saved,
          editSavedIdx, editSavedData, rendered, tasks, pdfjsLib,
          scriptLoads, created, events, caller>>

(***************************************************************************)
(* Bounds                                                                  *)
(***************************************************************************)
\* longest completion list (content blocks / candidate parts) an upstream
\* response carries
MaxSegs == 2

\* the tokens that stand for the 200 characters extractInvoice keeps of a
\* response body when it quotes it in an error message
ExcerptTokens == 3

(***************************************************************************)
(* Input sets                                                              *)
(***************************************************************************)
Variants == {"anthropicOnly", "fallthrough", "nested"}

AnthropicKeys == {"", "sk-ant"}
GeminiKeys    == {"", "g-key"}

\* text of one segment of a completion
Texts == {<<>>, <<"{">>, <<"}">>}

Contents == UNION {[1..n -> Texts] : n \in 0..MaxSegs}

AnthropicStops == {"end_turn", "max_tokens", "error"}
\* "" stands for a candidate without finishReason (or no candidate at all)
GeminiStops    == {"STOP", "MAX_TOKENS", "SAFETY", ""}

Stops(p) == IF p = "anthropic" THEN AnthropicStops ELSE GeminiStops

\* error field of the upstream JSON: absent, an object without message, or
\* an object whose message is "quota exceeded"
ErrorFields == {"none", "nomsg", "quota exceeded"}

\* What fetch + res.json() give for one upstream request: a 2xx JSON
\* document with a completion, a non-2xx JSON document (an error body, no
\* completion), or an exception (network failure, body not JSON).
Upstream(p) ==
    [kind : {"json"}, status : {200}, error : ErrorFields,
     content : Contents, stop : Stops(p)]
    \cup
    [kind : {"json"}, status : {429, 500}, error : ErrorFields,
     content : {<<>>}, stop : {""}]
    \cup
    [kind : {"throw"}, status : {0}, error : {"none"},
     content : {<<>>}, stop : {""}]

NoUpstream == [kind |-> "none", status |-> 0, error |-> "none",
               content |-> <<>>, stop |-> ""]

\* base64 lengths a request may carry: empty, tiny, the first length whose
\* decoded estimate is above 5MB, and the first length the rounded-KB test
\* of the later handlers rejects
ImageLens == {0, 4, 6990507, 6991190}

Requests ==
    [method : {"POST", "GET"}, hasBody : BOOLEAN, imageLen : ImageLens,
     mediaType : {"", "image/jpeg"}, prompt : BOOLEAN]

NoRequest == [method |-> "", hasBody |-> FALSE, imageLen |-> 0,
              mediaType |-> "", prompt |-> FALSE]

\* files the browser may be given: declared type and file extension
Files == [type : {"application/pdf", ""}, ext : {"pdf", "png"}]

NoFile == [type |-> "", ext |-> ""]

\* base64 lengths the rasterizer may produce
RasterLens == {0, 4, 6991190}

(***************************************************************************)
(* Text helpers                                                            *)
(***************************************************************************)
Str(tokens) == [t |-> "str", v |-> tokens]
Obj(msg)    == [t |-> "obj", message |-> msg]

\* Array.prototype.join("") over the texts of a list
RECURSIVE Join(_)
Join(segs) == IF segs = <<>> THEN <<>> ELSE Head(segs) \o Join(Tail(segs))

\* String.prototype.includes
IsInfix(m, s) ==
    \E i \in 0..(Len(s) - Len(m)) : SubSeq(s, i + 1, i + Len(m)) = m

\* JSON.stringify(data) of an upstream document
JSONStringify(r) ==
    <<"{error:", r.error, ",stop:", r.stop, ",segments:",
      ToString(Len(r.content)), "}">>

\* data?.error?.message
ErrorMessage(r) ==
    IF r.error \in {"none", "nomsg"} THEN <<>> ELSE <<r.error>>

\* data.content as sent on: one text block per segment
Blocks(content) ==
    [i \in 1..Len(content) |-> [type |-> "text", text |-> content[i]]]

\* res.ok
ResOk(r) == r.status \in 200..299

(***************************************************************************)
(* Provider clients                                                        *)
(***************************************************************************)
Threw(p, msg) ==
    [ok |-> FALSE, provider |-> p, content |-> <<>>, message |-> msg]

Returned(p, blocks) ==
    [ok |-> TRUE, provider |-> p, content |-> blocks, message |-> <<>>]

\* callAnthropic of api/extract.js (v = "fallthrough") and of src/extract.js
\* (v = "nested")
callAnthropic(v, r) ==
    IF r.kind = "throw" THEN Threw("anthropic", <<"fetch failed">>)
    ELSE IF ~ResOk(r) THEN
        LET msg == IF ErrorMessage(r) # <<>> THEN ErrorMessage(r)
                   ELSE JSONStringify(r)
        IN  IF v = "nested"
            THEN Threw("anthropic", <<"Anthropic ", ToString(r.status), ": ">> \o msg)
            ELSE Threw("anthropic", <<"Anthropic HTTP ", ToString(r.status), ": ">> \o msg)
    ELSE IF v = "nested" THEN
        IF Len(r.content) = 0
        THEN Threw("anthropic", <<"Anthropic returned empty content">>)
        ELSE Returned("anthropic", Blocks(r.content))
    ELSE IF r.error # "none" THEN
        Threw("anthropic",
              <<"Anthropic API error: ">> \o
              (IF ErrorMessage(r) # <<>> THEN ErrorMessage(r)
               ELSE <<"{}">>))
    ELSE IF r.stop = "error" \/ Len(r.content) = 0 THEN
        Threw("anthropic",
              <<"Anthropic returned no content (stop_reason: ", r.stop, ")">>)
    ELSE Returned("anthropic", Blocks(r.content))

\* callGemini with its result tagged as the other provider's
callGemini_mistag(v, r) ==
    IF r.kind = "json" /\ ResOk(r) /\ Len(r.content) > 0 /\ r.content[1] # <<>>
    THEN Returned("anthropic", <<[type |-> "text", text |-> r.content[1]]>>)
    ELSE Threw("gemini", <<"Gemini failed">>)

\* callGemini of api/extract.js (v = "fallthrough") and of src/extract.js
\* (v = "nested"); r.content are the parts of candidates[0]
callGemini(v, r) ==
    IF r.kind = "throw" THEN Threw("gemini", <<"fetch failed">>)
    ELSE IF ~ResOk(r) THEN
        LET msg == IF ErrorMessage(r) # <<>> THEN ErrorMessage(r)
                   ELSE JSONStringify(r)
        IN  IF v = "nested"
            THEN Threw("gemini", <<"Gemini ", ToString(r.status), ": ">> \o msg)
            ELSE Threw("gemini", <<"Gemini HTTP ", ToString(r.status), ": ">> \o msg)
    ELSE
        LET text == IF Len(r.content) = 0 THEN <<>> ELSE r.content[1]
            reason == IF r.stop = "" THEN "unknown" ELSE r.stop
        IN  IF text = <<>>
            THEN Threw("gemini",
                       <<"Gemini returned empty content (finishReason: ",
                         reason, ")">>)
            ELSE Returned("gemini", <<[type |-> "text", text |-> text]>>)

Call(v, p, r) == IF p = "anthropic" THEN callAnthropic(v, r) ELSE callGemini(v, r)

(***************************************************************************)
(* The handler                                                             *)
(***************************************************************************)
NoResp == [status |-> 0, body |-> [none |-> TRUE]]

Respond(status, body) == [status |-> status, body |-> body]

\* an error body that quotes the keys of the deployment after the message
ErrorBody_withKeys(msg) == [error |-> Str(msg \o <<anthropicKey, geminiKey>>)]

ErrorBody(msg) == [error |-> Str(msg)]

\* Math.round(imageBase64.length * 0.75 / 1024)
approxKB(len) == (3 * len + 2048) \div 4096

\* a size test that lets every payload through
TooLarge_never(v, len) == FALSE

\* the size test: approxBytes > 5 * 1024 * 1024 in the Anthropic-only
\* handler, approxKB > 5120 in the two later ones
TooLarge(v, len) ==
    IF v = "anthropicOnly" THEN 3 * len > 4 * (5 * 1024 * 1024)
    ELSE approxKB(len) > 5120

\* !imageBase64 || !mediaType || !prompt
MissingFields(rq) ==
    ~rq.hasBody \/ rq.imageLen = 0 \/ rq.mediaType = "" \/ ~rq.prompt

\* the checks without the test that a key is configured
Validate_noKeyCheck(v, rq, aKey, gKey) ==
    IF rq.method # "POST" THEN
        Respond(405, ErrorBody(<<"Method not allowed">>))
    ELSE IF MissingFields(rq) THEN
        Respond(400, ErrorBody(<<"Missing fields: imageBase64, mediaType, prompt">>))
    ELSE IF TooLarge(v, rq.imageLen) THEN
        Respond(413, ErrorBody(<<"Image too large">>))
    ELSE NoResp

\* The checks a handler makes before it calls a provider, in the order it
\* makes them; NoResp when the request passes all of them.
Validate(v, rq, aKey, gKey) ==
    IF rq.method # "POST" THEN
        Respond(405, ErrorBody(<<"Method not allowed">>))
    ELSE IF v = "anthropicOnly" THEN
        IF aKey = "" THEN
            Respond(500, ErrorBody(<<"ANTHROPIC_API_KEY not configured on server">>))
        ELSE IF ~rq.hasBody THEN
            \* destructuring undefined throws outside the try block
            Respond(500, ErrorBody(<<"FUNCTION_INVOCATION_FAILED">>))
        ELSE IF MissingFields(rq) THEN
            Respond(400, ErrorBody(<<"Missing required fields: imageBase64, mediaType, prompt">>))
        ELSE IF TooLarge(v, rq.imageLen) THEN
            Respond(413, ErrorBody(<<"Image too large (", ToString(approxKB(rq.imageLen)),
                                     "KB). Max 5MB. Try a lower resolution image.">>))
        ELSE NoResp
    ELSE
        IF aKey = "" /\ gKey = "" THEN
            Respond(500, ErrorBody(<<"No API key configured. Add ANTHROPIC_API_KEY or GEMINI_API_KEY in Vercel">>))
        ELSE IF MissingFields(rq) THEN
            Respond(400, ErrorBody(<<"Missing fields: imageBase64, mediaType, prompt">>))
        ELSE IF TooLarge(v, rq.imageLen) THEN
            Respond(413, ErrorBody(<<"Image too large (", ToString(approxKB(rq.imageLen)),
                                     "KB). Max ~5MB.">>))
        ELSE NoResp

\* Gemini preferred whenever its key is set
FirstProvider_geminiFirst(v, aKey, gKey) ==
    IF gKey # "" /\ v # "anthropicOnly" THEN "gemini" ELSE "anthropic"

\* the provider the handler calls first
FirstProvider(v, aKey, gKey) ==
    IF v = "anthropicOnly" \/ aKey # "" THEN "anthropic" ELSE "gemini"

\* both providers fetched at once when both keys are set
StartCalls_parallel(v, aKey, gKey) ==
    IF v # "anthropicOnly" /\ aKey # "" /\ gKey # ""
    THEN <<"anthropic", "gemini">>
    ELSE <<FirstProvider(v, aKey, gKey)>>

\* the upstream fetches issued before the handler first suspends
StartCalls(v, aKey, gKey) == <<FirstProvider(v, aKey, gKey)>>

KeyOf(p) == IF p = "anthropic" THEN anthropicKey ELSE geminiKey

Fetch(p) == [provider |-> p, key |-> KeyOf(p)]

\* the fallback taken whenever a Gemini key is set, success or not
AfterAttempt_ignoreSuccess(v, first, gKey, res) ==
    IF first = "anthropic" /\ gKey # "" THEN "fallback"
    ELSE IF res.ok THEN "respond200"
    ELSE "respond502"

\* a failed provider called again when it was Gemini
AfterAttempt_retrySame(v, first, gKey, res) ==
    IF res.ok THEN "respond200"
    ELSE IF gKey # "" THEN "fallback"
    ELSE "respond502"

\* what the handler does when its first provider call has completed
AfterAttempt(v, first, gKey, res) ==
    IF res.ok THEN "respond200"
    ELSE IF first = "anthropic" /\ gKey # "" THEN "fallback"
    ELSE "respond502"

\* body of a 200 answer
SuccessBody(v, res, isFallback) ==
    IF v = "nested" /\ isFallback
    THEN [provider |-> res.provider, content |-> res.content, usedFallback |-> TRUE]
    ELSE [provider |-> res.provider, content |-> res.content]

\* body of the 502 answer, from the failed attempts in order
FailureBody(v, failed) ==
    LET last == failed[Len(failed)] IN
    IF v = "nested" THEN
        IF Len(failed) = 1 THEN ErrorBody(last.message)
        ELSE ErrorBody(<<"Both providers failed.\nAnthropic: ">> \o failed[1].message
                       \o <<"\nGemini: ">> \o last.message)
    ELSE IF last.provider = "anthropic"
         THEN ErrorBody(<<"Anthropic failed: ">> \o last.message)
         ELSE ErrorBody(<<"Gemini failed: ">> \o last.message)

Line(level, text) == [level |-> level, text |-> text]

\* console output when a provider call is about to be made
TryLog(v, p, first) ==
    IF v = "fallthrough" THEN
        <<Line("log", <<IF p = "anthropic" THEN "trying Anthropic" ELSE "trying Gemini">>)>>
    ELSE IF v = "nested" /\ first THEN
        <<Line("log", <<"provider=", p>>)>>
    ELSE <<>>

\* console output when a provider call failed
FailLog(v, res, first) ==
    IF v = "fallthrough" THEN
        IF res.provider = "anthropic"
        THEN <<Line("warn", <<"Anthropic failed: ">> \o res.message)>>
        ELSE <<Line("error", <<"Gemini failed: ">> \o res.message)>>
    ELSE IF v = "nested" THEN
        IF first THEN <<Line("error", <<"primary error:">> \o res.message)>>
        ELSE <<Line("error", <<"Gemini fallback failed:">> \o res.message)>>
    ELSE <<Line("error", <<"Upstream Anthropic error:">> \o res.message)>>

\* console output when a provider call succeeded
OkLog(v, res) ==
    IF v = "fallthrough" THEN
        <<Line("log", <<IF res.provider = "anthropic" THEN "Anthropic succeeded"
                        ELSE "Gemini succeeded">>)>>
    ELSE <<>>

\* console output before the fallback call
FallbackLog(v) ==
    IF v = "fallthrough" THEN <<Line("log", <<"Falling back to Gemini...">>)>>
    ELSE <<Line("log", <<"Anthropic failed - trying Gemini fallback">>)>>

\* the raw Anthropic document the Anthropic-only handler forwards
AnthropicData(r) ==
    IF r.error = "none"
    THEN [content |-> Blocks(r.content), stop_reason |-> r.stop]
    ELSE [error |-> Obj(ErrorMessage(r)), content |-> Blocks(r.content),
          stop_reason |-> r.stop]

\* The handler from its entry to its first await (or to its answer, when a
\* check fails).
Handle(rq) ==
    LET v     == Validate(variant, rq, anthropicKey, geminiKey)
        start == StartCalls(variant, anthropicKey, geminiKey)
    IN  /\ hpc = "idle"
        /\ req' = rq
        /\ attempts' = <<>>
        /\ lastUpstream' = NoUpstream
        /\ IF v.status # 0
           THEN /\ hpc' = "responded"
                /\ resp' = v
                /\ inflight' = {}
                /\ calls' = <<>>
                /\ log' = <<>>
           ELSE /\ hpc' = "first"
                /\ resp' = NoResp
                /\ inflight' = {start[i] : i \in 1..Len(start)}
                /\ calls' = [i \in 1..Len(start) |-> Fetch(start[i])]
                /\ log' = TryLog(variant, start[1], TRUE)

clientVars == <<cpc, file, rasterRuns, rawText, clientResult>>
deployVars == <<variant, anthropicKey, geminiKey>>
unitVars   == <<unitIn, unitOut>>
appVars    == <<queue, reviewIdx, saved, editSavedIdx, editSavedData, rendered,
               tasks, pdfjsLib, scriptLoads, created, events, caller>>

\* a request sent by something other than the page
DirectRequest ==
    \E rq \in Requests :
        /\ cpc = "idle"
        /\ source' = "direct"
        /\ Handle(rq)
        /\ UNCHANGED <<clientVars, deployVars, unitVars, appVars>>

\* the first provider call completes
FirstResponds ==
    /\ hpc = "first"
    /\ \E r \in Upstream(calls[1].provider) :
        LET p == calls[1].provider IN
        /\ p \in inflight
        /\ IF variant = "anthropicOnly" THEN
              LET res == IF r.kind = "throw" THEN Threw(p, <<"fetch failed">>)
                         ELSE Returned(p, Blocks(r.content))
              IN  /\ attempts' = Append(attempts, res)
                  /\ lastUpstream' = r
                  /\ inflight' = inflight \ {p}
                  /\ calls' = calls
                  /\ hpc' = "responded"
                  /\ IF r.kind = "throw"
                     THEN /\ resp' = Respond(502, ErrorBody(<<"Upstream request failed: ">> \o res.message))
                          /\ log' = log \o FailLog(variant, res, TRUE)
                     ELSE /\ resp' = Respond(r.status, AnthropicData(r))
                          /\ log' = log
           ELSE
              LET res  == Call(variant, p, r)
                  next == AfterAttempt(variant, p, geminiKey, res)
              IN  /\ attempts' = Append(attempts, res)
                  /\ CASE next = "respond200" ->
                            /\ hpc' = "responded"
                            /\ lastUpstream' = r
                            /\ inflight' = inflight \ {p}
                            /\ calls' = calls
                            /\ resp' = Respond(200, SuccessBody(variant, res, FALSE))
                            /\ log' = log \o OkLog(variant, res)
                       [] next = "fallback" ->
                            /\ hpc' = "fallback"
                            /\ lastUpstream' = NoUpstream
                            /\ inflight' = (inflight \ {p}) \cup {"gemini"}
                            /\ calls' = Append(calls, Fetch("gemini"))
                            /\ resp' = NoResp
                            /\ log' = log \o FailLog(variant, res, TRUE)
                                          \o FallbackLog(variant)
                                          \o TryLog(variant, "gemini", FALSE)
                       [] OTHER ->
                            /\ hpc' = "responded"
                            /\ lastUpstream' = r
                            /\ inflight' = inflight \ {p}
                            /\ calls' = calls
                            /\ resp' = Respond(502, FailureBody(variant, <<res>>))
                            /\ log' = log \o FailLog(variant, res, TRUE)
        /\ UNCHANGED <<clientVars, deployVars, source, req, unitVars, appVars>>

\* the fallback call to Gemini completes
FallbackResponds ==
    \E r \in Upstream("gemini") :
        LET res == callGemini(variant, r) IN
        /\ hpc = "fallback"
        /\ "gemini" \in inflight
        /\ lastUpstream' = r
        /\ attempts' = Append(attempts, res)
        /\ inflight' = inflight \ {"gemini"}
        /\ hpc' = "responded"
        /\ IF res.ok
           THEN /\ resp' = Respond(200, SuccessBody(variant, res, TRUE))
                /\ log' = log \o OkLog(variant, res)
           ELSE /\ resp' = Respond(502, FailureBody(variant, Append(attempts, res)))
                /\ log' = log \o FailLog(variant, res, FALSE)
        /\ UNCHANGED <<clientVars, deployVars, source, req, calls, unitVars, appVars>>

\* The platform gives up on an invocation that is still waiting for a
\* provider and answers the page itself, with a body that is not JSON.
PlatformTimeout ==
    /\ hpc \in {"first", "fallback"}
    /\ source = "client"
    /\ hpc' = "timedout"
    /\ resp' = Respond(504, [text |-> <<"An error occurred with your deployment">>])
    /\ UNCHANGED <<clientVars, deployVars, source, req, inflight, calls,
                   attempts, lastUpstream, log, unitVars, appVars>>

(***************************************************************************)
(* The browser side: extractInvoice                                        *)
(***************************************************************************)
\* keys of FIELDS, in order
FieldKeys == <<"invoiceNo", "invoiceDate", "dueDate", "paymentTerms",
               "vendorName", "vendorAddress", "billToName", "billToAddress",
               "amount", "currency", "taxAmount", "poNumber", "description",
               "bankDetails">>

FieldKeySet == {FieldKeys[i] : i \in 1..Len(FieldKeys)}

\* String.prototype.toLowerCase on the types and extensions that occur
toLowerCase(s) ==
    CASE s = "IMAGE/PNG" -> "image/png"
      [] s = "PNG"       -> "png"
      [] s = "PDF"       -> "pdf"
      [] OTHER           -> s

\* f.ext is the last dot-separated part of the file's name
normalizeMime(f) ==
    LET t   == toLowerCase(f.type)
        ext == toLowerCase(f.ext)
    IN  IF t = "application/pdf" \/ ext = "pdf" THEN "application/pdf"
        ELSE IF t \in {"image/jpeg", "image/jpg"} THEN "image/jpeg"
        ELSE IF t = "image/png" THEN "image/png"
        ELSE IF t = "image/webp" THEN "image/webp"
        ELSE IF t = "image/gif" THEN "image/gif"
        ELSE "image/jpeg"

\* Texts are sequences of tokens: a token is one punctuation character, one
\* whitespace character, or a maximal run of other characters (a word).
WS == {" ", "\n"}

\* word tokens that are JSON number literals
Numbers == {"0", "42"}

\* values of JavaScript that JSON.parse produces, tagged by their type
Num(tok)  == [t |-> "num", v |-> <<tok>>]
Bool(tok) == [t |-> "bool", v |-> <<tok>>]
Null      == [t |-> "null", v |-> <<>>]
Arr(items)   == [t |-> "arr", v |-> items]
\* an object: its members <<key, value>> in insertion order
Map(members) == [t |-> "map", v |-> members]
\* what reading an absent property gives
Undefined == [t |-> "undefined", v |-> <<>>]

\* text.indexOf(c), 1-based; 0 when absent
IndexOf(text, c) ==
    IF \E i \in 1..Len(text) : text[i] = c
    THEN CHOOSE i \in 1..Len(text) :
             text[i] = c /\ \A j \in 1..(i - 1) : text[j] # c
    ELSE 0

\* index of the first token at or after i that is not whitespace
RECURSIVE SkipWs(_, _)
SkipWs(s, i) == IF i <= Len(s) /\ s[i] \in WS THEN SkipWs(s, i + 1) ELSE i

\* index of the first c at or after i; 0 when there is none
RECURSIVE Find(_, _, _)
Find(s, c, i) ==
    IF i > Len(s) THEN 0 ELSE IF s[i] = c THEN i ELSE Find(s, c, i + 1)

\* String.prototype.trim
Trim(s) ==
    LET keep == {i \in 1..Len(s) : s[i] \notin WS} IN
    IF keep = {} THEN <<>>
    ELSE SubSeq(s, CHOOSE i \in keep : \A j \in keep : i <= j,
                   CHOOSE i \in keep : \A j \in keep : i >= j)

\* the token that stands for a run of three backticks
Fence == "<fence>"

\* text.replace(/<fence>json\s*/gi, "") when tagged, and
\* text.replace(/<fence>\s*/g, "") otherwise: every match, left to right,
\* from index i on
RECURSIVE DropFences(_, _, _)
DropFences(s, i, tagged) ==
    IF i > Len(s) THEN <<>>
    ELSE IF /\ s[i] = Fence
            /\ tagged => (i + 1 <= Len(s) /\ s[i + 1] \in {"json", "JSON"})
    THEN DropFences(s, SkipWs(s, i + (IF tagged THEN 2 ELSE 1)), tagged)
    ELSE <<s[i]>> \o DropFences(s, i + 1, tagged)

\* the first statement of extractJSON
Unfence(raw) == Trim(DropFences(DropFences(raw, 1, TRUE), 1, FALSE))

\* the brace-depth loop of extractJSON: index of the matching close, or 0
RECURSIVE ScanClose(_, _, _)
ScanClose(text, i, depth) ==
    IF i > Len(text) THEN 0
    ELSE IF text[i] = "{" THEN ScanClose(text, i + 1, depth + 1)
    ELSE IF text[i] = "}" THEN
        IF depth - 1 = 0 THEN i ELSE ScanClose(text, i + 1, depth - 1)
    ELSE ScanClose(text, i + 1, depth)

\* (s.match(/c/g) || []).length
Count(s, c) == Cardinality({i \in 1..Len(s) : s[i] = c})

Repeat(c, n) == [i \in 1..n |-> c]

Max0(n) == IF n > 0 THEN n ELSE 0

\* /,\s*"[^"]*"?\s*:?\s*[^,}\]]*$/ matches from the ',' at index i: after
\* the whitespace comes a '"'; [^"]* runs at most to the next '"', and what
\* is left from there to the end of the text must be free of ',', '}' and
\* ']' (the optional '"', whitespace and ':' are in that class themselves)
TailMatchesAt(s, i) ==
    LET q == SkipWs(s, i + 1) IN
    /\ s[i] = ","
    /\ q <= Len(s) /\ s[q] = "\""
    /\ LET close == Find(s, "\"", q + 1)
           from  == IF close = 0 THEN Len(s) + 1 ELSE close
       IN  \A k \in from..Len(s) : s[k] \notin {",", "}", "]"}

\* s.replace(/,\s*"[^"]*"?\s*:?\s*[^,}\]]*$/, ""): the leftmost match goes
StripTail(s) ==
    LET at == {i \in 1..Len(s) : TailMatchesAt(s, i)} IN
    IF at = {} THEN s
    ELSE SubSeq(s, 1, (CHOOSE i \in at : \A j \in at : i <= j) - 1)

ParseError == [ok |-> FALSE, pos |-> 0, val |-> Null]
Parsed(val, pos) == [ok |-> TRUE, pos |-> pos, val |-> val]

\* a string literal opening at index i: no escapes, no raw line break
ParseString(s, i) ==
    LET j == Find(s, "\"", i + 1) IN
    IF j = 0 \/ \E k \in (i + 1)..(j - 1) : s[k] = "\n" THEN ParseError
    ELSE Parsed(Str(SubSeq(s, i + 1, j - 1)), j + 1)

\* obj[key] = val: a repeated key keeps its place and takes the new value
Put(members, key, val) ==
    IF \E i \in 1..Len(members) : members[i][1] = key
    THEN [i \in 1..Len(members) |->
             IF members[i][1] = key THEN <<key, val>> ELSE members[i]]
    ELSE Append(members, <<key, val>>)

\* JSON.parse as a recursive descent over the tokens: the value read at
\* index i and the index after it
RECURSIVE ParseValue(_, _), ParseMembers(_, _, _), ParseItems(_, _, _)
ParseValue(s, i0) ==
    LET i == SkipWs(s, i0) IN
    IF i > Len(s) THEN ParseError
    ELSE IF s[i] = "{" THEN
        LET j == SkipWs(s, i + 1) IN
        IF j <= Len(s) /\ s[j] = "}" THEN Parsed(Map(<<>>), j + 1)
        ELSE ParseMembers(s, j, <<>>)
    ELSE IF s[i] = "[" THEN
        LET j == SkipWs(s, i + 1) IN
        IF j <= Len(s) /\ s[j] = "]" THEN Parsed(Arr(<<>>), j + 1)
        ELSE ParseItems(s, j, <<>>)
    ELSE IF s[i] = "\"" THEN ParseString(s, i)
    ELSE IF s[i] \in Numbers THEN Parsed(Num(s[i]), i + 1)
    ELSE IF s[i] \in {"true", "false"} THEN Parsed(Bool(s[i]), i + 1)
    ELSE IF s[i] = "null" THEN Parsed(Null, i + 1)
    ELSE ParseError

ParseMembers(s, i, acc) ==
    IF i > Len(s) \/ s[i] # "\"" THEN ParseError
    ELSE LET k == ParseString(s, i) IN
         IF ~k.ok THEN ParseError
         ELSE LET c == SkipWs(s, k.pos) IN
              IF c > Len(s) \/ s[c] # ":" THEN ParseError
              ELSE LET x == ParseValue(s, c + 1) IN
                   IF ~x.ok THEN ParseError
                   ELSE LET d    == SkipWs(s, x.pos)
                            acc2 == Put(acc, k.val.v, x.val)
                        IN  IF d > Len(s) THEN ParseError
                            ELSE IF s[d] = "}" THEN Parsed(Map(acc2), d + 1)
                            ELSE IF s[d] = ","
                            THEN ParseMembers(s, SkipWs(s, d + 1), acc2)
                            ELSE ParseError

ParseItems(s, i, acc) ==
    LET x == ParseValue(s, i) IN
    IF ~x.ok THEN ParseError
    ELSE LET d    == SkipWs(s, x.pos)
             acc2 == Append(acc, x.val)
         IN  IF d > Len(s) THEN ParseError
             ELSE IF s[d] = "]" THEN Parsed(Arr(acc2), d + 1)
             ELSE IF s[d] = "," THEN ParseItems(s, SkipWs(s, d + 1), acc2)
             ELSE ParseError

\* JSON.parse(s): the value, when s is one JSON document and nothing more
JSONParse(s) ==
    LET r == ParseValue(s, 1) IN
    IF r.ok /\ SkipWs(s, r.pos) > Len(s)
    THEN [ok |-> TRUE, val |-> r.val]
    ELSE [ok |-> FALSE, val |-> Null]

JSONParses(s) == JSONParse(s).ok

\* texts joined by ','
RECURSIVE JoinComma(_)
JoinComma(texts) ==
    IF texts = <<>> THEN <<>>
    ELSE IF Len(texts) = 1 THEN texts[1]
    ELSE texts[1] \o <<",">> \o JoinComma(Tail(texts))

\* JSON.stringify of a value (no character of these texts needs an escape)
RECURSIVE Stringify(_)
Stringify(x) ==
    CASE x.t = "str"  -> <<"\"">> \o x.v \o <<"\"">>
      [] x.t = "null" -> <<"null">>
      [] x.t = "arr"  ->
            <<"[">> \o JoinComma([i \in 1..Len(x.v) |-> Stringify(x.v[i])])
                    \o <<"]">>
      [] x.t = "map"  ->
            <<"{">> \o JoinComma([i \in 1..Len(x.v) |->
                          <<"\"">> \o x.v[i][1] \o <<"\"", ":">>
                              \o Stringify(x.v[i][2])])
                    \o <<"}">>
      [] OTHER        -> x.v

\* the candidate substring extractJSON gives to JSON.parse (after repair);
\* <<>> when the text has no '{'
Candidate(raw) ==
    LET text  == Unfence(raw)
        start == IndexOf(text, "{")
    IN  IF start = 0 THEN <<>>
        ELSE LET end == ScanClose(text, start, 0) IN
             IF end # 0 THEN SubSeq(text, start, end)
             ELSE LET s     == SubSeq(text, start, Len(text))
                      opens == Count(s, "[") - Count(s, "]")
                      objs  == Count(s, "{") - Count(s, "}")
                  IN  StripTail(s) \o Repeat("]", Max0(opens))
                                   \o Repeat("}", Max0(objs))

\* extractJSON: the parsed object or the error thrown
extractJSON(raw) ==
    IF IndexOf(Unfence(raw), "{") = 0
    THEN [ok |-> FALSE, val |-> Null,
          message |-> <<"No JSON object in response:\n">> \o Unfence(raw)]
    ELSE LET parsed == JSONParse(Candidate(raw)) IN
         IF parsed.ok
         THEN [ok |-> TRUE, val |-> parsed.val, message |-> <<>>]
         ELSE [ok |-> FALSE, val |-> Null, message |-> <<"Unexpected token">>]

\* EMPTY_FORM
EmptyForm == [k \in FieldKeySet |-> Str(<<>>)]

\* obj[key]
Get(obj, key) ==
    IF \E i \in 1..Len(obj.v) : obj.v[i][1] = key
    THEN obj.v[CHOOSE i \in 1..Len(obj.v) : obj.v[i][1] = key][2]
    ELSE Undefined

\* truthiness of a value, as || tests it
TruthyValue(x) ==
    CASE x.t = "str"  -> x.v # <<>>
      [] x.t = "num"  -> x.v # <<"0">>
      [] x.t = "bool" -> x.v = <<"true">>
      [] x.t \in {"arr", "map"} -> TRUE
      [] OTHER -> FALSE

\* the coercion without the || "" default
Coerce_noDefault(parsed) ==
    [form |-> [k \in FieldKeySet |-> Get(parsed, <<k>>)],
     lineItems |-> LET x == Get(parsed, <<"lineItems">>) IN
                   IF x.t = "arr" THEN x.v ELSE <<>>]

\* the coercion dropping the first line item
Coerce_skipFirstLine(parsed) ==
    [form |-> [k \in FieldKeySet |->
                  LET x == Get(parsed, <<k>>) IN
                  IF TruthyValue(x) THEN x ELSE Str(<<>>)],
     lineItems |-> LET x == Get(parsed, <<"lineItems">>) IN
                   IF x.t = "arr" /\ x.v # <<>> THEN Tail(x.v) ELSE <<>>]

\* the last two statements of extractInvoice's try block: form and lineItems
Coerce(parsed) ==
    [form |-> [k \in FieldKeySet |->
                  LET x == Get(parsed, <<k>>) IN
                  IF TruthyValue(x) THEN x ELSE Str(<<>>)],
     lineItems |-> LET x == Get(parsed, <<"lineItems">>) IN
                   IF x.t = "arr" THEN x.v ELSE <<>>]

Truthy(x) == x.t = "obj" \/ x.v # <<>>

\* res.text(): the body as text
BodyText(body) ==
    IF "text" \in DOMAIN body THEN body.text
    ELSE IF "error" \in DOMAIN body /\ body.error.t = "str"
    THEN <<"{\"error\":\"">> \o body.error.v \o <<"\"}">>
    ELSE IF "error" \in DOMAIN body
    THEN <<"{\"error\":{">> \o body.error.message \o <<"}}">>
    ELSE <<"{\"content\":">> \o Join([i \in 1..Len(body.content) |-> body.content[i].text])
         \o <<"}">>

\* rawText.slice(0, 200), lengths counted in tokens
Slice(text) ==
    IF Len(text) > ExcerptTokens THEN SubSeq(text, 1, ExcerptTokens) ELSE text

ClientThrew(msg) == [ok |-> FALSE, raw |-> <<>>, message |-> msg, val |-> Null]

\* the try block of extractInvoice after res.text(), with the data.error
\* test left out
TryBlock_noErrorCheck(rsp) ==
    LET body == rsp.body IN
    IF rsp.status \notin 200..299 \/ "text" \in DOMAIN body
    THEN ClientThrew(<<"Server error ", ToString(rsp.status)>>)
    ELSE IF ~("content" \in DOMAIN body /\ Len(body.content) > 0)
    THEN ClientThrew(<<"Empty response from API">>)
    ELSE LET raw    == Join([i \in 1..Len(body.content) |-> body.content[i].text])
             parsed == extractJSON(raw)
         IN  [ok |-> parsed.ok, raw |-> raw, message |-> parsed.message,
              val |-> parsed.val]

\* the try block of extractInvoice after res.text(): what it hands to
\* extractJSON and the object parsed, or the error it throws
TryBlock(rsp) ==
    LET body   == rsp.body
        isJson == "text" \notin DOMAIN body
        hasErr == isJson /\ "error" \in DOMAIN body /\ Truthy(body.error)
    IN  IF rsp.status \notin 200..299 THEN
            IF ~isJson
            THEN ClientThrew(<<"Server error ", ToString(rsp.status), ": ">>
                             \o Slice(body.text))
            ELSE IF hasErr /\ body.error.t = "str" THEN ClientThrew(body.error.v)
            ELSE IF hasErr THEN ClientThrew(<<"[object Object]">>)
            ELSE ClientThrew(<<"Server error ", ToString(rsp.status)>>)
        ELSE IF ~isJson THEN ClientThrew(<<"Unexpected token">>)
        ELSE IF hasErr THEN
            IF body.error.t = "obj" /\ body.error.message # <<>>
            THEN ClientThrew(body.error.message)
            ELSE IF body.error.t = "obj" THEN ClientThrew(<<"{}">>)
            ELSE ClientThrew(<<"\"">> \o body.error.v \o <<"\"">>)
        ELSE IF ~("content" \in DOMAIN body /\ Len(body.content) > 0)
        THEN ClientThrew(<<"Empty response from API">>)
        ELSE LET raw    == Join([i \in 1..Len(body.content) |-> body.content[i].text])
                 parsed == extractJSON(raw)
             IN  [ok |-> parsed.ok, raw |-> raw, message |-> parsed.message,
                  val |-> parsed.val]

\* a catch block that throws the error again as it is
CatchBlock_rethrow(rsp, msg) == msg

\* the catch block of extractInvoice: append an excerpt of the body text
\* unless the message holds the head of that text already. The head,
\* rawText.slice(0, 20), is the opening token of the body.
CatchBlock(rsp, msg) ==
    LET text == BodyText(rsp.body) IN
    IF text # <<>> /\ ~IsInfix(SubSeq(text, 1, 1), msg)
    THEN msg \o <<"\n\nRaw: ">> \o Slice(text)
    ELSE msg

NoResult == [state |-> "none"]

\* no function of the page is being called on its own
NoUnit == [fn |-> "none"]

\* null, where an index is expected
NullIdx == -100

\* null, where a saved invoice is expected
NoData == [form |-> 0, lineItems |-> 0, fileName |-> 0]

\* App when it is mounted: the initial values of its state and refs
AppStart ==
    /\ queue = <<>>
    /\ reviewIdx = NullIdx
    /\ saved = <<>>
    /\ editSavedIdx = NullIdx
    /\ editSavedData = NoData
    /\ rendered = [queue |-> <<>>, reviewIdx |-> NullIdx, saved |-> <<>>,
                   editSavedIdx |-> NullIdx, editSavedData |-> NoData]
    /\ tasks = <<>>
    /\ pdfjsLib = FALSE
    /\ scriptLoads = 0
    /\ created = 0
    /\ events = 0

\* extractInvoice is called: normalizeMime, then the rasterizer is started
ClientStart ==
    \E f \in Files :
        /\ cpc = "idle"
        /\ hpc = "idle"
        /\ cpc' = "rasterizing"
        /\ file' = f
        /\ rasterRuns' = Append(rasterRuns,
                                IF normalizeMime(f) = "application/pdf"
                                THEN "pdfToImageBase64" ELSE "compressImage")
        /\ UNCHANGED <<rawText, clientResult, deployVars, hpc, source, req,
                       inflight, calls, attempts, lastUpstream, log, resp,
                   unitVars, appVars>>

\* the rasterizer rejects: extractInvoice throws before its try block
RasterFails ==
    /\ cpc = "rasterizing"
    /\ cpc' = "threw"
    /\ clientResult' = [state |-> "threw",
                        message |-> IF normalizeMime(file) = "application/pdf"
                                    THEN <<"Failed to load PDF.js">>
                                    ELSE <<"Image failed to load">>]
    /\ UNCHANGED <<file, rasterRuns, rawText, deployVars, hpc, source, req,
                   inflight, calls, attempts, lastUpstream, log, resp,
                   unitVars, appVars>>

\* the rasterizer resolves and extractInvoice posts to /api/extract
RasterDone ==
    \E len \in RasterLens :
        /\ cpc = "rasterizing"
        /\ cpc' = "awaiting"
        /\ source' = "client"
        /\ Handle([method |-> "POST", hasBody |-> TRUE, imageLen |-> len,
                   mediaType |-> "image/jpeg", prompt |-> TRUE])
        /\ UNCHANGED <<file, rasterRuns, rawText, clientResult, deployVars,
                       unitVars, appVars>>

\* the answer of /api/extract arrives: parse, coerce, return or throw
ClientReceives ==
    LET out == TryBlock(resp) IN
    /\ cpc = "awaiting"
    /\ hpc \in {"responded", "timedout"}
    /\ rawText' = out.raw
    /\ IF out.ok
       THEN /\ cpc' = "returned"
            /\ clientResult' = [state |-> "returned",
                                form |-> Coerce(out.val).form,
                                lineItems |-> Coerce(out.val).lineItems]
       ELSE /\ cpc' = "threw"
            /\ clientResult' = [state |-> "threw",
                                message |-> CatchBlock(resp, out.message)]
    /\ UNCHANGED <<file, rasterRuns, deployVars, hpc, source, req, inflight,
                   calls, attempts, lastUpstream, log, resp, unitVars, appVars>>

(***************************************************************************)
(* Specification                                                           *)
(***************************************************************************)
Init ==
    /\ variant \in Variants
    /\ anthropicKey \in AnthropicKeys
    /\ geminiKey \in GeminiKeys
    /\ cpc = "idle"
    /\ file = NoFile
    /\ rasterRuns = <<>>
    /\ rawText = <<>>
    /\ clientResult = NoResult
    /\ hpc = "idle"
    /\ source = "none"
    /\ req = NoRequest
    /\ inflight = {}
    /\ calls = <<>>
    /\ attempts = <<>>
    /\ lastUpstream = NoUpstream
    /\ log = <<>>
    /\ resp = NoResp
    /\ unitIn = NoUnit
    /\ unitOut = NoUnit
    /\ AppStart
    /\ caller = "page"

Next ==
    \/ DirectRequest
    \/ ClientStart
    \/ RasterFails
    \/ RasterDone
    \/ FirstResponds
    \/ FallbackResponds
    \/ PlatformTimeout
    \/ ClientReceives

Spec == Init /\ [][Next]_vars

(***************************************************************************)
(* extractJSON and the coercion called on their own                        *)
(***************************************************************************)
\* one member of an object
Member(key, val) == <<<<key>>, val>>

\* objects a completion may hold
SampleDocs ==
    { Map(<<>>),
      Map(<<Member("invoiceNo", Str(<<"A1">>)),
            Member("lineItems",
                   Arr(<<Map(<<Member("description", Str(<<"x">>)),
                               Member("qty", Str(<<"1">>))>>)>>))>>),
      Map(<<Member("invoiceNo", Str(<<"A1">>)),
            Member("amount", Str(<<"42">>))>>),
      Map(<<Member("invoiceNo", Str(<<"A1">>)),
            Member("lineItems", Arr(<<>>))>>),
      Map(<<Member("tags", Arr(<<Str(<<"a">>), Str(<<"b">>)>>))>>),
      Map(<<Member("lineItems", Arr(<<Map(<<Member("qty", Str(<<"1">>))>>),
                                      Map(<<Member("qty", Str(<<"2">>))>>)>>))>>),
      Map(<<Member("amount", Num("42"))>>),
      Map(<<Member("amount", Num("0")), Member("currency", Str(<<"USD">>))>>),
      Map(<<Member("dueDate", Null), Member("vendorName", Str(<<"Acme">>))>>),
      Map(<<Member("poNumber", Bool("true")),
            Member("taxAmount", Bool("false"))>>),
      Map(<<Member("description", Arr(<<Str(<<"x">>)>>))>>),
      Map(<<Member("vendorAddress", Map(<<Member("city", Str(<<"x">>))>>))>>),
      Map(<<Member("lineItems", Str(<<"x">>))>>),
      Map(<<Member("vendorName", Str(<<"Acme", " ", "Corp">>))>>),
      Map(<<Member("vendorName", Str(<<"}">>))>>),
      Map(<<Member("vendorName", Str(<<"{">>))>>),
      Map(<<Member("description", Str(<<"{", "x", "}">>))>>),
      Map(<<Member("description", Str(<<Fence>>))>>),
      Map(<<Member("foo", Str(<<"bar">>))>>) }

\* what a model puts around the object: nothing, a tagged fence, a bare
\* fence, prose on both sides of a fence, prose alone
Wraps == {"none", "json", "JSON", "bare", "prose+json", "prose"}

Wrap(w, text) ==
    LET before == <<"Here", " ", "is", " ", "the", " ", "invoice", ":", "\n">>
        after  == <<"\n", "Let", " ", "me", " ", "know", ".">>
    IN  CASE w = "json"  -> <<Fence, "json", "\n">> \o text \o <<"\n", Fence>>
          [] w = "JSON"  -> <<Fence, "JSON", "\n">> \o text \o <<"\n", Fence>>
          [] w = "bare"  -> <<Fence, "\n">> \o text \o <<"\n", Fence>>
          [] w = "prose+json" ->
                before \o <<Fence, "json", "\n">> \o text \o <<"\n", Fence>>
                       \o after
          [] w = "prose" -> before \o text \o after
          [] OTHER       -> text

\* a completion cut short by the output limit: a fence may have been opened,
\* none was closed
CutWraps == {"none", "json"}

CutWrap(w, text) ==
    IF w = "json" THEN <<Fence, "json", "\n">> \o text ELSE text

\* the texts extractJSON is called with: every sample object whole in every
\* wrapping, and cut after each of its tokens
ParseInputs ==
    { [fn |-> "extractJSON", doc |-> d, wrap |-> w, cut |-> Len(Stringify(d)),
       raw |-> Wrap(w, Stringify(d))] : d \in SampleDocs, w \in Wraps }
    \cup
    UNION { { [fn |-> "extractJSON", doc |-> d, wrap |-> w, cut |-> n,
               raw |-> CutWrap(w, SubSeq(Stringify(d), 1, n))]
              : n \in 1..(Len(Stringify(d)) - 1) }
            : d \in SampleDocs, w \in CutWraps }

\* the record as the object it is written out as: the fields, then lineItems
AsObject(rec) ==
    Map([i \in 1..Len(FieldKeys) |-> Member(FieldKeys[i], rec.form[FieldKeys[i]])]
        \o <<Member("lineItems", Arr(rec.lineItems))>>)

NoRecord == [form |-> <<>>, lineItems |-> <<>>]

\* extractJSON(raw), then the coercion of what it parsed; the record is
\* also written out with JSON.stringify, read back and coerced again
CallExtractJSON ==
    LET parsed == extractJSON(unitIn.raw)
        rec    == Coerce(parsed.val)
    IN  /\ unitIn.fn = "extractJSON"
        /\ unitOut = NoUnit
        /\ unitOut' =
              IF parsed.ok
              THEN [fn |-> "extractJSON", ok |-> TRUE, val |-> parsed.val,
                    message |-> <<>>, record |-> rec,
                    again |-> Coerce(JSONParse(Stringify(AsObject(rec))).val)]
              ELSE [fn |-> "extractJSON", ok |-> FALSE, val |-> Null,
                    message |-> parsed.message, record |-> NoRecord,
                    again |-> NoRecord]
        /\ UNCHANGED <<unitIn, clientVars, deployVars, hpc, source, req,
                       inflight, calls, attempts, lastUpstream, log, resp,
                   appVars>>

\* nothing of the page or of the handler is running
Quiet ==
    /\ cpc = "idle"
    /\ file = NoFile
    /\ rasterRuns = <<>>
    /\ rawText = <<>>
    /\ clientResult = NoResult
    /\ hpc = "idle"
    /\ source = "none"
    /\ req = NoRequest
    /\ inflight = {}
    /\ calls = <<>>
    /\ attempts = <<>>
    /\ lastUpstream = NoUpstream
    /\ log = <<>>
    /\ resp = NoResp

ParseInit ==
    /\ variant = "fallthrough"
    /\ anthropicKey = "sk-ant"
    /\ geminiKey = "g-key"
    /\ Quiet
    /\ unitIn \in ParseInputs
    /\ unitOut = NoUnit
    /\ AppStart
    /\ caller = "page"

ParseNext == CallExtractJSON

ParseSpec == ParseInit /\ [][ParseNext]_vars

(***************************************************************************)
(* The rasterizer called on its own: smartResize, compressImage and        *)
(* pdfToImageBase64, then the post of extractInvoice                       *)
(***************************************************************************)
\* Math.round(a / b) for a >= 0, b > 0
Round(a, b) == (2 * a + b) \div (2 * b)

\* smartResize without the minimum-width floor
smartResize_noFloor(w, h, maxLong, minWidth) ==
    LET long  == IF h > w THEN h ELSE w
        scale == IF maxLong < long THEN <<maxLong, long>> ELSE <<1, 1>>
    IN  [nw |-> Round(w * scale[1], scale[2]),
         nh |-> Round(h * scale[1], scale[2])]

\* smartResize: the size of the canvas it draws. The scale is kept as a
\* fraction <<numerator, denominator>>, so that the comparisons and the
\* rounding are exact.
smartResize(w, h, maxLong, minWidth) ==
    LET portrait == h > w
        capped   == IF portrait
                    THEN IF maxLong < h THEN <<maxLong, h>> ELSE <<1, 1>>
                    ELSE IF maxLong < w THEN <<maxLong, w>> ELSE <<1, 1>>
        scale    == IF portrait /\ w * capped[1] < minWidth * capped[2]
                    THEN <<minWidth, w>>
                    ELSE capped
    IN  [nw |-> Round(w * scale[1], scale[2]),
         nh |-> Round(h * scale[1], scale[2])]

\* the arguments of the successive smartResize calls; quality in hundredths
Tuples(kind) ==
    IF kind = "compressImage"
    THEN <<[maxLong |-> 2000, minWidth |-> 900, quality |-> 82],
           [maxLong |-> 2000, minWidth |-> 900, quality |-> 65],
           [maxLong |-> 1600, minWidth |-> 800, quality |-> 60]>>
    ELSE <<[maxLong |-> 2000, minWidth |-> 900, quality |-> 85],
           [maxLong |-> 2000, minWidth |-> 900, quality |-> 70],
           [maxLong |-> 1600, minWidth |-> 800, quality |-> 60]>>

\* a size test that never asks for another encoding
OverBudget_never(len) == FALSE

\* b64.length * 0.75 > 700 * 1024
OverBudget(len) == 3 * len > 4 * (700 * 1024)

\* one smartResize call: the canvas drawn and the length of the base64 text
\* the encoder gave for it
Encode(kind, i, w, h, lens) ==
    LET t == Tuples(kind)[i]
        c == smartResize(w, h, t.maxLong, t.minWidth)
    IN  [maxLong |-> t.maxLong, minWidth |-> t.minWidth, quality |-> t.quality,
         nw |-> c.nw, nh |-> c.nh, len |-> lens[i]]

\* the three encodings made whatever their sizes, the last one kept
SizeBudget_alwaysAll(kind, w, h, lens) ==
    [encodes |-> [i \in 1..3 |-> Encode(kind, i, w, h, lens)],
     base64Len |-> lens[3], mediaType |-> "image/jpeg"]

\* the body of compressImage's onload and the end of pdfToImageBase64: the
\* smartResize calls made, in order, and the image resolved with
SizeBudget(kind, w, h, lens) ==
    LET e1 == Encode(kind, 1, w, h, lens)
        r2 == OverBudget(e1.len)
        b2 == IF r2 THEN Encode(kind, 2, w, h, lens) ELSE e1
        r3 == OverBudget(b2.len)
        b3 == IF r3 THEN Encode(kind, 3, w, h, lens) ELSE b2
    IN  [encodes |-> <<e1>> \o (IF r2 THEN <<b2>> ELSE <<>>)
                            \o (IF r3 THEN <<b3>> ELSE <<>>),
         base64Len |-> b3.len, mediaType |-> "image/jpeg"]

\* largest width and height of a source canvas, in steps of 250 pixels
MaxDimSteps == 10

Dims == {250 * k : k \in 1..MaxDimSteps}

\* base64 lengths the encoder may give: none, tiny, the longest within the
\* 700KB budget, the shortest above it, one above the 5MB cap
EncLens == {0, 4, 955733, 955734, 6991190}

RasterInputs ==
    [fn : {"rasterize"}, kind : {"compressImage", "pdfToImageBase64"},
     w : Dims, h : Dims]

\* compressImage(file) or pdfToImageBase64(file) once the source canvas is
\* there
CallRasterizer ==
    \E lens \in [1..3 -> EncLens] :
        LET out == SizeBudget(unitIn.kind, unitIn.w, unitIn.h, lens) IN
        /\ unitIn.fn = "rasterize"
        /\ unitOut = NoUnit
        /\ unitOut' = [fn |-> "rasterize", encodes |-> out.encodes,
                       base64Len |-> out.base64Len,
                       mediaType |-> out.mediaType, posted |-> FALSE]
        /\ UNCHANGED <<unitIn, clientVars, deployVars, hpc, source, req,
                       inflight, calls, attempts, lastUpstream, log, resp,
                   appVars>>

\* extractInvoice posts the image to /api/extract
PostRaster ==
    /\ unitIn.fn = "rasterize"
    /\ unitOut # NoUnit
    /\ ~unitOut.posted
    /\ unitOut' = [unitOut EXCEPT !.posted = TRUE]
    /\ source' = "client"
    /\ Handle([method |-> "POST", hasBody |-> TRUE,
               imageLen |-> unitOut.base64Len,
               mediaType |-> unitOut.mediaType, prompt |-> TRUE])
    /\ UNCHANGED <<unitIn, clientVars, deployVars, appVars>>

RasterInit ==
    /\ variant \in Variants
    /\ anthropicKey = "sk-ant"
    /\ geminiKey = "g-key"
    /\ Quiet
    /\ unitIn \in RasterInputs
    /\ unitOut = NoUnit
    /\ AppStart
    /\ caller = "page"

RasterNext == CallRasterizer \/ PostRaster

RasterSpec == RasterInit /\ [][RasterNext]_vars

(***************************************************************************)
(* normalizeMime called on its own                                         *)
(***************************************************************************)
\* declared types: none, the five the page knows (and the image/jpg
\* spelling), two it does not, and one in capitals
MimeTypes == {"", "application/pdf", "image/jpeg", "image/jpg", "image/png",
              "image/webp", "image/gif", "image/heic",
              "application/octet-stream", "IMAGE/PNG"}

Exts == {"pdf", "jpg", "jpeg", "png", "webp", "gif", "heic", "txt", "PNG",
         "PDF"}

MimeInputs == [fn : {"normalizeMime"}, type : MimeTypes, ext : Exts]

CallNormalizeMime ==
    /\ unitIn.fn = "normalizeMime"
    /\ unitOut = NoUnit
    /\ unitOut' = [fn |-> "normalizeMime",
                   mime |-> normalizeMime([type |-> unitIn.type,
                                           ext |-> unitIn.ext])]
    /\ UNCHANGED <<unitIn, clientVars, deployVars, hpc, source, req,
                   inflight, calls, attempts, lastUpstream, log, resp,
                   appVars>>

MimeInit ==
    /\ variant = "fallthrough"
    /\ anthropicKey = "sk-ant"
    /\ geminiKey = "g-key"
    /\ Quiet
    /\ unitIn \in MimeInputs
    /\ unitOut = NoUnit
    /\ AppStart
    /\ caller = "page"

MimeNext == CallNormalizeMime

MimeSpec == MimeInit /\ [][MimeNext]_vars

(***************************************************************************)
(* The App component: the upload queue, the review panel and the saved     *)
(* list. A state setter takes effect at once on the state React holds; a   *)
(* handler sees, through its closure and through queueRef and              *)
(* reviewIdxRef, the state of the last render. extractInvoice is one await *)
(* for the script of PDF.js, when it has to be loaded, and one for the     *)
(* rasterizer and the request, which end with a record or with an error.   *)
(***************************************************************************)
MAX_FILES == 3

\* handlers run on behalf of the user in one run of the page, at most
MaxEvents == 4

\* queue entries made in one run of the page, at most
MaxCreated == 4

\* script loads counted, at most
MaxScriptLoads == 2

Pdf == [type |-> "application/pdf", ext |-> "pdf"]
Png == [type |-> "image/png", ext |-> "png"]
Txt == [type |-> "text/plain", ext |-> "txt"]

\* the file lists a user may drop or pick: one PDF; a text file and a PNG;
\* a PNG and a PDF
Batches == {<<Pdf>>, <<Txt, Png>>, <<Png, Pdf>>}

\* the filter of addFiles
Allowed(f) ==
    LET t   == toLowerCase(f.type)
        ext == toLowerCase(f.ext)
    IN  \/ t = "application/pdf"
        \/ t \in {"image/jpeg", "image/jpg", "image/png", "image/webp",
                  "image/gif", "image/heic"}
        \/ ext \in {"pdf", "png", "jpg", "jpeg", "webp", "gif", "heic", "heif"}

\* form and line items a user has typed over
Edited == 99

\* prev.map(e => e.id === id ? { ...e, status } : e)
SetStatus(q, id, status) ==
    [j \in 1..Len(q) |->
        IF q[j].id = id THEN [q[j] EXCEPT !.status = status] ELSE q[j]]

\* an update that writes the outcome of an extraction to the entry at the
\* place where the document was put when it was added
Outcome_byPlace(q, place, e, ok) ==
    [j \in 1..Len(q) |->
        IF j # place THEN q[j]
        ELSE IF ok
        THEN [q[j] EXCEPT !.status = "ready", !.form = e.id, !.lineItems = e.id]
        ELSE [q[j] EXCEPT !.status = "error", !.errorMsg = "failed"]]

\* the update made when extractInvoice(entry.file) has returned (ok) or has
\* thrown; the record extracted from a document is named by the id of its
\* entry
Outcome(q, place, e, ok) ==
    [j \in 1..Len(q) |->
        IF q[j].id # e.id THEN q[j]
        ELSE IF ok
        THEN [q[j] EXCEPT !.status = "ready", !.form = e.id, !.lineItems = e.id]
        ELSE [q[j] EXCEPT !.status = "error", !.errorMsg = "failed"]]

\* pdfToImageBase64 has to load the script of PDF.js first
NeedsScript(e) == e.fileType = "application/pdf" /\ ~pdfjsLib

\* extractInvoice(file) up to its first await
StartExtract(e) ==
    /\ scriptLoads' = IF NeedsScript(e) /\ scriptLoads < MaxScriptLoads
                      THEN scriptLoads + 1 ELSE scriptLoads
    /\ UNCHANGED pdfjsLib

PcAfterStart(e) == IF NeedsScript(e) THEN "script" ELSE "extract"

RemoveAt(s, k) == SubSeq(s, 1, k - 1) \o SubSeq(s, k + 1, Len(s))

mainVars ==  <<clientVars, deployVars, hpc, source, req, inflight, calls,
              attempts, lastUpstream, log, resp, unitVars>>

\* the state a render of App sees
Snapshot ==
    [queue |-> queue, reviewIdx |-> reviewIdx, saved |-> saved,
     editSavedIdx |-> editSavedIdx, editSavedData |-> editSavedData]

\* React renders App again when a handler it has run for an event of the
\* page returns; handlers that are called one after the other get no render
\* in between
AfterHandler == rendered' = IF caller = "page" THEN Snapshot' ELSE rendered

\* addFiles(rawFiles), from its entry to the first await of its loop
AddFiles ==
    \E files \in Batches :
        LET currentQueue == rendered.queue
            allowed == SelectSeq(files, Allowed)
            slots   == MAX_FILES - Len(currentQueue)
            toAdd   == SubSeq(allowed, 1,
                              IF slots < Len(allowed) THEN slots ELSE Len(allowed))
            entries == [i \in 1..Len(toAdd) |->
                           [id |-> created + i,
                            fileType |-> normalizeMime(toAdd[i]),
                            status |-> "pending", errorMsg |-> "",
                            form |-> 0, lineItems |-> 0]]
        IN  /\ slots > 0
            /\ Len(toAdd) > 0
            /\ created + Len(toAdd) <= MaxCreated
            /\ created' = created + Len(toAdd)
            /\ events < MaxEvents
            /\ events' = events + 1
            /\ queue' = SetStatus(queue \o entries, entries[1].id, "extracting")
            /\ IF rendered.reviewIdx = NullIdx
               THEN /\ editSavedIdx' = NullIdx
                    /\ editSavedData' = NoData
                    /\ reviewIdx' = Len(currentQueue)
               ELSE UNCHANGED <<editSavedIdx, editSavedData, reviewIdx>>
            /\ StartExtract(entries[1])
            /\ tasks' = Append(tasks,
                   [kind |-> "addFiles",
                    entries |-> [i \in 1..Len(entries) |->
                                    [id |-> entries[i].id,
                                     fileType |-> entries[i].fileType]],
                    base |-> Len(currentQueue), i |-> 1,
                    pc |-> PcAfterStart(entries[1])])
            /\ UNCHANGED <<saved, caller, mainVars>>
            /\ AfterHandler

\* the script of PDF.js has loaded: pdfToImageBase64 goes on
ScriptLoaded(k) ==
    /\ k \in 1..Len(tasks)
    /\ tasks[k].pc = "script"
    /\ pdfjsLib' = TRUE
    /\ tasks' = [tasks EXCEPT ![k].pc = "extract"]
    /\ UNCHANGED <<queue, reviewIdx, saved, editSavedIdx, editSavedData,
                   rendered, scriptLoads, created, events, caller, mainVars>>

\* extractInvoice returns (ok) or throws in the call at position k: the
\* rest of the loop body of addFiles, then the next turn of the loop up to
\* its await; or the rest of retryExtract
Settle(k, ok) ==
    LET t    == tasks[k]
        e    == t.entries[t.i]
        more == t.kind = "addFiles" /\ t.i < Len(t.entries)
        nxt  == t.entries[IF more THEN t.i + 1 ELSE t.i]
        q1   == Outcome(queue, t.base + t.i, e, ok)
    IN  /\ k \in 1..Len(tasks)
        /\ t.pc = "script" => ~ok
        /\ queue' = IF more THEN SetStatus(q1, nxt.id, "extracting") ELSE q1
        /\ IF t.kind = "addFiles" /\ ok /\ rendered.reviewIdx = NullIdx
           THEN /\ editSavedIdx' = NullIdx
                /\ editSavedData' = NoData
                /\ reviewIdx' = t.base + t.i - 1
           ELSE UNCHANGED <<editSavedIdx, editSavedData, reviewIdx>>
        /\ IF more
           THEN /\ StartExtract(nxt)
                /\ tasks' = [tasks EXCEPT ![k].i = t.i + 1,
                                          ![k].pc = PcAfterStart(nxt)]
           ELSE /\ tasks' = RemoveAt(tasks, k)
                /\ UNCHANGED <<pdfjsLib, scriptLoads>>
        /\ UNCHANGED <<saved, rendered, created, events, caller, mainVars>>

\* React renders App after state was set outside a handler of the page:
\* the handlers and the refs get the current state
Render ==
    /\ rendered # Snapshot
    /\ rendered' = Snapshot
    /\ UNCHANGED <<queue, reviewIdx, saved, editSavedIdx, editSavedData,
                   tasks, pdfjsLib, scriptLoads, created, events, caller,
                   caller, mainVars>>

\* what the render shows
isSavedEdit == rendered.editSavedIdx # NullIdx

HasReviewingQueue ==
    /\ ~isSavedEdit
    /\ rendered.reviewIdx \in 0..(Len(rendered.queue) - 1)

reviewingQueue == rendered.queue[rendered.reviewIdx + 1]

\* a click on an entry of the queue
SelectQueue(idx) ==
    /\ events < MaxEvents
    /\ events' = events + 1
    /\ idx \in 0..(Len(rendered.queue) - 1)
    /\ editSavedIdx' = NullIdx
    /\ editSavedData' = NoData
    /\ reviewIdx' = idx
    /\ UNCHANGED <<queue, saved, tasks, pdfjsLib, scriptLoads,
                   created, caller, mainVars>>
    /\ AfterHandler

\* queue.findIndex((e, i) => i !== reviewIdx && e.status !== "saved")
NextUnsaved ==
    LET open == {i \in 0..(Len(rendered.queue) - 1) :
                    i # rendered.reviewIdx
                    /\ rendered.queue[i + 1].status # "saved"}
    IN  IF open = {} THEN NullIdx
        ELSE CHOOSE i \in open : \A j \in open : i <= j

\* saveQueue, from the Save button of the review form (which is shown for
\* the entry under review unless that entry is being extracted); each
\* file of the model has its own name, the id of its entry
saveQueue ==
    /\ events < MaxEvents
    /\ events' = events + 1
    /\ HasReviewingQueue
    /\ reviewingQueue.status # "extracting"
    /\ saved' = Append(saved, [form |-> reviewingQueue.form,
                               lineItems |-> reviewingQueue.lineItems,
                               fileName |-> reviewingQueue.id])
    /\ queue' = [j \in 1..Len(queue) |->
                    IF j = rendered.reviewIdx + 1
                    THEN [queue[j] EXCEPT !.status = "saved"] ELSE queue[j]]
    /\ reviewIdx' = NextUnsaved
    /\ UNCHANGED <<editSavedIdx, editSavedData, tasks, pdfjsLib,
                   scriptLoads, created, caller, mainVars>>
    /\ AfterHandler

\* a click on a saved invoice
openSavedForEdit(idx) ==
    /\ events < MaxEvents
    /\ events' = events + 1
    /\ idx \in 0..(Len(rendered.saved) - 1)
    /\ reviewIdx' = NullIdx
    /\ editSavedIdx' = idx
    /\ editSavedData' = rendered.saved[idx + 1]
    /\ UNCHANGED <<queue, saved, tasks, pdfjsLib, scriptLoads,
                   created, caller, mainVars>>
    /\ AfterHandler

\* updateSavedForm and updateSavedLine: typing in the form of a saved
\* invoice
updateSavedForm ==
    /\ events < MaxEvents
    /\ events' = events + 1
    /\ isSavedEdit
    /\ editSavedData # NoData
    /\ editSavedData.form # Edited
    /\ editSavedData' = [editSavedData EXCEPT !.form = Edited]
    /\ UNCHANGED <<queue, reviewIdx, saved, editSavedIdx, tasks,
                   pdfjsLib, scriptLoads, created, caller, mainVars>>
    /\ AfterHandler

\* the Update button of the form of a saved invoice
updateSaved ==
    /\ events < MaxEvents
    /\ events' = events + 1
    /\ isSavedEdit
    /\ saved' = [j \in 1..Len(saved) |->
                    IF j = rendered.editSavedIdx + 1
                    THEN rendered.editSavedData ELSE saved[j]]
    /\ editSavedIdx' = NullIdx
    /\ editSavedData' = NoData
    /\ UNCHANGED <<queue, reviewIdx, tasks, pdfjsLib, scriptLoads,
                   created, caller, mainVars>>
    /\ AfterHandler

\* the Discard button of the form of a saved invoice
cancelSavedEdit ==
    /\ events < MaxEvents
    /\ events' = events + 1
    /\ isSavedEdit
    /\ editSavedIdx' = NullIdx
    /\ editSavedData' = NoData
    /\ UNCHANGED <<queue, reviewIdx, saved, tasks, pdfjsLib,
                   scriptLoads, created, caller, mainVars>>
    /\ AfterHandler

\* removeQueue(idx), from the cross of an entry or from the Discard button
\* of the review form; null - 1 is -1
removeQueue(idx) ==
    /\ events < MaxEvents
    /\ events' = events + 1
    /\ idx \in 0..(Len(rendered.queue) - 1)
    /\ queue' = [j \in 1..(IF idx < Len(queue) THEN Len(queue) - 1 ELSE Len(queue)) |->
                    IF j <= idx THEN queue[j] ELSE queue[j + 1]]
    /\ reviewIdx' = IF rendered.reviewIdx = idx THEN NullIdx
                    ELSE IF rendered.reviewIdx > idx
                    THEN (IF reviewIdx = NullIdx THEN -1 ELSE reviewIdx - 1)
                    ELSE reviewIdx
    /\ UNCHANGED <<saved, editSavedIdx, editSavedData, tasks,
                   pdfjsLib, scriptLoads, created, caller, mainVars>>
    /\ AfterHandler

\* retryExtract(item), from the Retry button of an entry shown in error, up
\* to its await
retryExtract(idx) ==
    /\ events < MaxEvents
    /\ events' = events + 1
    /\ idx \in 0..(Len(rendered.queue) - 1)
    /\ rendered.queue[idx + 1].status = "error"
    /\ LET item == rendered.queue[idx + 1] IN
        /\ queue' = [j \in 1..Len(queue) |->
                        IF queue[j].id = item.id
                        THEN [queue[j] EXCEPT !.status = "extracting",
                                              !.errorMsg = ""]
                        ELSE queue[j]]
        /\ StartExtract(item)
        /\ tasks' = Append(tasks,
               [kind |-> "retryExtract",
                entries |-> <<[id |-> item.id, fileType |-> item.fileType]>>,
                base |-> 0, i |-> 1, pc |-> PcAfterStart(item)])
    /\ UNCHANGED <<reviewIdx, saved, editSavedIdx, editSavedData, created, caller, mainVars>>
    /\ AfterHandler

AppInit ==
    /\ variant = "fallthrough"
    /\ anthropicKey = "sk-ant"
    /\ geminiKey = "g-key"
    /\ Quiet
    /\ unitIn = NoUnit
    /\ unitOut = NoUnit
    /\ AppStart
    /\ caller = "page"

AppNext ==
    \/ AddFiles
    \/ \E k \in 1..MaxCreated : ScriptLoaded(k)
    \/ \E k \in 1..MaxCreated, ok \in BOOLEAN : Settle(k, ok)
    \/ Render
    \/ \E idx \in 0..(MaxCreated - 1) : SelectQueue(idx)
    \/ saveQueue
    \/ \E idx \in 0..(MaxEvents - 1) : openSavedForEdit(idx)
    \/ updateSavedForm
    \/ updateSaved
    \/ cancelSavedEdit
    \/ \E idx \in 0..(MaxCreated - 1) : removeQueue(idx)
    \/ \E idx \in 0..(MaxCreated - 1) : retryExtract(idx)

AppSpec == AppInit /\ [][AppNext]_vars

\* the extraction of the document with this id goes on: the script loads,
\* or extractInvoice returns or throws
Advance(id) ==
    \E k \in 1..Len(tasks) :
        /\ tasks[k].entries[tasks[k].i].id = id
        /\ \/ ScriptLoaded(k)
           \/ \E ok \in BOOLEAN : Settle(k, ok)

\* every script load, every rasterization and every request to
\* /api/extract ends
AppFairSpec ==
    AppSpec /\ \A id \in 1..MaxCreated : WF_vars(Advance(id))

\* addFiles and removeQueue called back to back, as the owner of the
\* callbacks may, with the extractions completing and React rendering in
\* between whenever they do
BurstInit ==
    /\ variant = "fallthrough"
    /\ anthropicKey = "sk-ant"
    /\ geminiKey = "g-key"
    /\ Quiet
    /\ unitIn = NoUnit
    /\ unitOut = NoUnit
    /\ AppStart
    /\ caller = "direct"

BurstNext ==
    \/ AddFiles
    \/ \E k \in 1..MaxCreated : ScriptLoaded(k)
    \/ \E k \in 1..MaxCreated, ok \in BOOLEAN : Settle(k, ok)
    \/ Render
    \/ \E idx \in 0..(MaxCreated - 1) : removeQueue(idx)

BurstSpec == BurstInit /\ [][BurstNext]_vars

(***************************************************************************)
(* Properties                                                              *)
(***************************************************************************)
\* the two handlers that know both providers
Fallbacks == variant \in {"fallthrough", "nested"}

\* the request went through every check of the handler
Validated ==
    hpc # "idle" /\ Validate(variant, req, anthropicKey, geminiKey) = NoResp

Providers == [i \in 1..Len(calls) |-> calls[i].provider]

Responded == hpc = "responded"

\* the attempt that completed last
LastAttempt == attempts[Len(attempts)]

\* no key is configured for any provider the deployed handler knows
NoCredential ==
    IF variant = "anthropicOnly" THEN anthropicKey = ""
    ELSE anthropicKey = "" /\ geminiKey = ""

\* the messages occur in the text, one after the other
RECURSIVE ListsInOrder(_, _)
ListsInOrder(msgs, text) ==
    IF msgs = <<>> THEN TRUE
    ELSE LET m == Head(msgs) IN
         \E i \in 0..(Len(text) - Len(m)) :
             /\ SubSeq(text, i + 1, i + Len(m)) = m
             /\ ListsInOrder(Tail(msgs), SubSeq(text, i + Len(m) + 1, Len(text)))

\* C1: for a request that passed validation, Anthropic is called first when
\* its key is set; Gemini is called second exactly when the Anthropic call
\* failed and a Gemini key is set; with only the Gemini key set Gemini is
\* the one call and Anthropic is never called.
ProviderOrder ==
    (Fallbacks /\ Validated) =>
        /\ Len(calls) >= 1
        /\ anthropicKey # "" =>
              /\ Providers[1] = "anthropic"
              /\ Len(calls) >= 2 =>
                    /\ Providers = <<"anthropic", "gemini">>
                    /\ ~attempts[1].ok
                    /\ geminiKey # ""
              /\ (Len(attempts) >= 1 /\ ~attempts[1].ok /\ geminiKey # "")
                    => Len(calls) = 2
        /\ anthropicKey = "" => Providers = <<"gemini">>

ProviderOrderWitness ==
    /\ Fallbacks /\ Validated /\ Responded
    /\ Providers = <<"anthropic", "gemini">>
    /\ Len(attempts) = 2

\* C2: the answer is 200 exactly when some attempted provider succeeded; the
\* body then carries the result of the first provider that succeeded, which
\* is also the last one attempted; the error of a provider is in the answer
\* only when no provider attempted after it succeeded.
FirstSuccessWins ==
    (Fallbacks /\ Validated /\ Responded) =>
        LET oks == {i \in 1..Len(attempts) : attempts[i].ok} IN
        /\ (resp.status = 200) <=> (oks # {})
        /\ oks # {} =>
              LET i == CHOOSE k \in oks : \A j \in oks : k <= j IN
              /\ i = Len(attempts)
              /\ "error" \notin DOMAIN resp.body
              /\ resp.body.provider = attempts[i].provider
              /\ resp.body.content = attempts[i].content
        /\ oks = {} =>
              /\ resp.status = 502
              /\ "error" \in DOMAIN resp.body
              /\ IsInfix(LastAttempt.message, resp.body.error.v)
        /\ \A i \in 1..Len(attempts) :
              ("error" \in DOMAIN resp.body /\ ~attempts[i].ok
                 /\ IsInfix(attempts[i].message, resp.body.error.v))
              => \A j \in (i + 1)..Len(attempts) : ~attempts[j].ok

FirstSuccessWinsWitness ==
    /\ Fallbacks /\ Validated /\ Responded
    /\ geminiKey # ""
    /\ Len(attempts) = 1
    /\ attempts[1].provider = "anthropic"
    /\ resp.status = 200

\* C3: when every attempted provider failed, the error answered lists the
\* failure message of each attempted provider, in attempt order.
ExhaustionListsEveryFailure ==
    (Fallbacks /\ Validated /\ Responded
       /\ \A i \in 1..Len(attempts) : ~attempts[i].ok) =>
        /\ "error" \in DOMAIN resp.body
        /\ ListsInOrder([i \in 1..Len(attempts) |-> attempts[i].message],
                        resp.body.error.v)

\* the primary failed and the secondary succeeded
FellBackAndSucceeded ==
    /\ Fallbacks /\ Validated /\ Responded
    /\ Len(attempts) = 2
    /\ ~attempts[1].ok
    /\ attempts[2].ok

\* console lines that report a failure
FailureLines == SelectSeq(log, LAMBDA l : l.level \in {"warn", "error"})

\* C4 as stated: after a fallback that succeeded the answer is Gemini's
\* result tagged "gemini" and carries an attempt list with one failure.
FallbackReturnsAttemptList ==
    FellBackAndSucceeded =>
        /\ resp.body.provider = "gemini"
        /\ resp.body.content = attempts[2].content
        /\ "attempts" \in DOMAIN resp.body
        /\ Len(resp.body.attempts) = 1

\* C4 as amended: after a fallback that succeeded the answer is 200 with
\* Gemini's result tagged "gemini"; the body has no attempt list (its keys
\* are provider and content, and usedFallback in src/extract.js); the one
\* failure of the invocation, Anthropic's, is in the console log only.
FallbackResult ==
    FellBackAndSucceeded =>
        /\ resp.status = 200
        /\ resp.body.provider = "gemini"
        /\ resp.body.content = attempts[2].content
        /\ DOMAIN resp.body \subseteq {"provider", "content", "usedFallback"}
        /\ attempts[1].provider = "anthropic"
        /\ Len(FailureLines) = 1
        /\ IsInfix(attempts[1].message, FailureLines[1].text)

FallbackResultWitness ==
    /\ FellBackAndSucceeded
    /\ anthropicKey # "" /\ geminiKey # ""
    /\ resp.status = 200

\* C5: at most one upstream request is in flight, and every request after
\* the first is issued only when all earlier ones have completed and the one
\* before it failed.
AttemptsSequential ==
    /\ Cardinality(inflight) <= 1
    /\ Len(calls) <= Len(attempts) + 1
    /\ \A i \in 2..Len(calls) : ~attempts[i - 1].ok

AttemptsSequentialWitness ==
    /\ hpc = "fallback"
    /\ Providers = <<"anthropic", "gemini">>
    /\ inflight = {"gemini"}

\* C6: one invocation sends at most one upstream request to each provider.
NoSelfRetry ==
    \A p \in {"anthropic", "gemini"} :
        Cardinality({i \in 1..Len(calls) : calls[i].provider = p}) <= 1

NoSelfRetryWitness ==
    /\ Responded
    /\ Len(attempts) = 2
    /\ ~attempts[1].ok /\ ~attempts[2].ok
    /\ Providers = <<"anthropic", "gemini">>

\* C7 as stated: with no credential configured no rasterization step runs.
NoKeyFailsBeforeRasterization ==
    NoCredential => rasterRuns = <<>>

\* C7 as amended: with no credential configured the handler answers a POST
\* with the no-key error (500) before it looks at the payload and without
\* calling a provider; extractInvoice has rasterized the document once when
\* it posts, and throws that error afterwards.
NoKeyFailsFastInHandler ==
    (NoCredential /\ hpc # "idle") =>
        /\ Responded
        /\ calls = <<>>
        /\ req.method = "POST" =>
              /\ resp.status = 500
              /\ resp.body.error.v \in
                    {<<"ANTHROPIC_API_KEY not configured on server">>,
                     <<"No API key configured. Add ANTHROPIC_API_KEY or GEMINI_API_KEY in Vercel">>}
        /\ source = "client" =>
              /\ req.method = "POST"
              /\ Len(rasterRuns) = 1
              /\ cpc \in {"awaiting", "threw"}
              /\ cpc = "threw" => IsInfix(resp.body.error.v, clientResult.message)

NoKeyFailsFastWitness ==
    /\ NoCredential
    /\ source = "client"
    /\ cpc = "threw"
    /\ Len(rasterRuns) = 1
    /\ resp.status = 500

\* !imageBase64 || !mediaType || !prompt, read off the request
FieldMissing ==
    ~req.hasBody \/ req.imageLen = 0 \/ req.mediaType = "" \/ ~req.prompt

\* the decoded estimate (length x 0.75) is above 5MB by half a KB or more
OverCap == 3 * req.imageLen >= 4 * (5 * 1024 * 1024) + 2048

\* C8: a POST with a key configured and all fields present whose decoded
\* estimate is above the cap is answered 413 and no provider is called; a
\* non-POST request (405), a POST with no key configured (500) and a POST
\* with a missing field (400; the Anthropic-only handler crashes with 500
\* when there is no body at all) call no provider either.
PayloadCap ==
    hpc # "idle" =>
        /\ (req.method = "POST" /\ ~NoCredential /\ ~FieldMissing /\ OverCap)
              => (Responded /\ resp.status = 413 /\ calls = <<>>)
        /\ req.method # "POST"
              => (Responded /\ resp.status = 405 /\ calls = <<>>)
        /\ (req.method = "POST" /\ NoCredential)
              => (Responded /\ resp.status = 500 /\ calls = <<>>)
        /\ (req.method = "POST" /\ ~NoCredential /\ FieldMissing)
              => /\ Responded
                 /\ calls = <<>>
                 /\ resp.status = IF variant = "anthropicOnly" /\ ~req.hasBody
                                  THEN 500 ELSE 400

PayloadCapWitness ==
    /\ Responded
    /\ req.method = "POST" /\ ~NoCredential /\ ~FieldMissing /\ OverCap
    /\ resp.status = 413
    /\ calls = <<>>

\* a stop / finish reason that does not end a normal completion
NonSuccessStop(stop) == stop \in {"error", "SAFETY"}

\* C9: a provider call succeeds only when the upstream response is 2xx, has
\* no error object, has a non-empty completion list and did not end with a
\* non-success stop reason.
FailureClasses ==
    (Fallbacks /\ attempts # <<>> /\ lastUpstream.kind = "json"
       /\ LastAttempt.ok) =>
        /\ ResOk(lastUpstream)
        /\ lastUpstream.error = "none"
        /\ Len(lastUpstream.content) > 0
        /\ ~NonSuccessStop(lastUpstream.stop)

\* C10: on success the text handed to the parser is the concatenation, in
\* order, of all text segments of the provider's completion.
TextNormalization ==
    (source = "client" /\ cpc \in {"returned", "threw"} /\ Responded
       /\ resp.status = 200 /\ attempts # <<>> /\ LastAttempt.ok
       /\ "error" \notin DOMAIN resp.body /\ Len(resp.body.content) > 0) =>
        rawText = Join(lastUpstream.content)

\* extractInvoice has dealt with the answer to its own request
ClientAnswered ==
    /\ source = "client"
    /\ cpc \in {"returned", "threw"}
    /\ hpc \in {"responded", "timedout"}

\* C11: an answer of /api/extract that is not 2xx, a 2xx answer whose body
\* carries an error field and a 2xx answer whose content list is empty (or
\* missing) each make extractInvoice throw; it returns a record only for a
\* 2xx body without error field and with a content list that is not empty.
TransportFailuresThrow ==
    ClientAnswered =>
        LET ok2xx   == resp.status \in 200..299
            errFld  == "error" \in DOMAIN resp.body
            content == "content" \in DOMAIN resp.body
                       /\ Len(resp.body.content) > 0
        IN  /\ ~ok2xx => cpc = "threw"
            /\ ok2xx /\ errFld => cpc = "threw"
            /\ ok2xx /\ ~content => cpc = "threw"
            /\ cpc = "returned" => ok2xx /\ ~errFld /\ content

\* a 2xx answer with an error field and a completion has made
\* extractInvoice throw
TransportFailuresThrowWitness ==
    /\ ClientAnswered
    /\ resp.status = 200
    /\ "error" \in DOMAIN resp.body
    /\ Len(resp.body.content) > 0
    /\ cpc = "threw"

\* a call of extractJSON has returned or thrown
Extracted == unitIn.fn = "extractJSON" /\ unitOut # NoUnit

\* the text given to extractJSON was cut short
Truncated == unitIn.cut < Len(Stringify(unitIn.doc))

\* the cut fell inside an array: a '[' is still open
MidArray ==
    LET pre == SubSeq(Stringify(unitIn.doc), 1, unitIn.cut) IN
    Count(pre, "[") > Count(pre, "]")

\* the text of one member as JSON.stringify writes it
MemberText(m) == <<"\"">> \o m[1] \o <<"\"", ":">> \o Stringify(m[2])

\* index of the last token of the i-th member in the text of the object
RECURSIVE EndOf(_, _)
EndOf(doc, i) ==
    IF i = 0 THEN 1
    ELSE EndOf(doc, i - 1) + Len(MemberText(doc.v[i])) + (IF i > 1 THEN 1 ELSE 0)

\* C12: for an object text cut short inside an array, extractJSON returns
\* an object instead of throwing (the closers it appends balance the open
\* '[' and '{' in nesting order), and every field that was complete before
\* the cut keeps its value.
TruncationRepaired ==
    Extracted /\ Truncated /\ MidArray =>
        /\ unitOut.ok
        /\ \A i \in 1..Len(unitIn.doc.v) :
               EndOf(unitIn.doc, i) <= unitIn.cut =>
                   Get(unitOut.val, unitIn.doc.v[i][1]) = unitIn.doc.v[i][2]

\* C13: for an object text whole inside fences (tagged or bare) and prose,
\* extractJSON returns exactly the object, also when a string of the object
\* holds '{', '}' or a fence.
FencedRoundTrip ==
    Extracted /\ ~Truncated => unitOut.ok /\ unitOut.val = unitIn.doc

\* C14: whatever object was parsed (also one with none of the expected
\* keys), the form has each of the 14 keys, no value of it is null or
\* undefined, a key the object lacks gives "", lineItems is the empty list
\* when the object has none, and the coercion does not throw.
CoercionTotal ==
    Extracted /\ unitOut.ok =>
        /\ unitOut.record # NoRecord
        /\ DOMAIN unitOut.record.form = FieldKeySet
        /\ Cardinality(FieldKeySet) = 14
        /\ \A k \in FieldKeySet :
               /\ unitOut.record.form[k].t \notin {"null", "undefined"}
               /\ Get(unitOut.val, <<k>>) = Undefined =>
                      unitOut.record.form[k] = Str(<<>>)
        /\ Get(unitOut.val, <<"lineItems">>) = Undefined =>
               unitOut.record.lineItems = <<>>

\* an object with none of the expected keys has been coerced
CoercionTotalWitness ==
    /\ Extracted /\ unitOut.ok
    /\ unitOut.val.v # <<>>
    /\ \A k \in FieldKeySet : Get(unitOut.val, <<k>>) = Undefined
    /\ unitOut.record.form = EmptyForm
    /\ unitOut.record.lineItems = <<>>

\* C15: every field of the form is a string, whatever the values of the
\* parsed object are (numbers, booleans, null, arrays, objects).
FieldsAreStrings ==
    Extracted /\ unitOut.ok =>
        \A k \in FieldKeySet : unitOut.record.form[k].t = "str"

Rasterized == unitIn.fn = "rasterize" /\ unitOut # NoUnit

\* the smartResize calls the rasterizer made
Encodes == {unitOut.encodes[i] : i \in 1..Len(unitOut.encodes)}

\* C17: smartResize never upscales: for every source size and every tuple
\* used, the long edge it produces is at most the long edge of the source,
\* also for a portrait source narrower than the minimum-width floor.
NeverUpscales ==
    Rasterized =>
        \A e \in Encodes :
            LET long(a, b) == IF a > b THEN a ELSE b IN
            long(e.nw, e.nh) <= long(unitIn.w, unitIn.h)

\* C18: for a portrait source the width produced is never below the
\* minimum-width floor, unless the source itself was narrower than it.
MinWidthFloor ==
    Rasterized =>
        \A e \in Encodes :
            unitIn.h > unitIn.w => e.nw >= e.minWidth \/ unitIn.w < e.minWidth

\* a portrait source wider than the floor, which the long-edge cap alone
\* would have brought under it, came out at the floor
MinWidthFloorWitness ==
    /\ Rasterized
    /\ unitIn.h > unitIn.w
    /\ \E e \in Encodes :
           /\ unitIn.w > e.minWidth
           /\ unitIn.w * e.maxLong < e.minWidth * unitIn.h
           /\ e.nw = e.minWidth
           /\ e.nh < unitIn.h

\* C19: the rasterizer goes through its three tuples in order and resolves
\* with the encoding of the first one whose estimate (length x 0.75) is at
\* most 700KB, or with the last one's when none is; no tuple is encoded
\* after one that fits.
FirstFitWins ==
    Rasterized =>
        LET n       == Len(unitOut.encodes)
            fits(e) == 3 * e.len <= 4 * 716800
        IN  /\ n \in 1..3
            /\ \A i \in 1..n :
                   LET e == unitOut.encodes[i] IN
                   [maxLong |-> e.maxLong, minWidth |-> e.minWidth,
                    quality |-> e.quality] = Tuples(unitIn.kind)[i]
            /\ \A i \in 1..(n - 1) : ~fits(unitOut.encodes[i])
            /\ n < 3 => fits(unitOut.encodes[n])
            /\ unitOut.base64Len = unitOut.encodes[n].len

\* the second tuple was the first to fit and the third was not encoded
FirstFitWinsWitness ==
    /\ Rasterized
    /\ Len(unitOut.encodes) = 2
    /\ unitOut.encodes[1].len = 955734
    /\ unitOut.base64Len = 955733

\* C20 as stated: whatever the input, the image the rasterizer resolves
\* with has a decoded estimate of at most the hard cap (5MB).
RasterWithinHardCap ==
    Rasterized => 3 * unitOut.base64Len <= 4 * (5 * 1024 * 1024)

\* C20, amended: the rasterizer only aims at the 700KB budget; an image
\* above the hard cap leaves it exactly when all three encodings are above
\* the budget and the third is above the cap, and /api/extract then answers
\* 413 without calling a provider.
HardCapAtTransport ==
    Rasterized /\ 3 * unitOut.base64Len > 4 * (5 * 1024 * 1024) + 2048 =>
        /\ Len(unitOut.encodes) = 3
        /\ \A i \in 1..3 : 3 * unitOut.encodes[i].len > 4 * 716800
        /\ unitOut.base64Len = unitOut.encodes[3].len
        /\ unitOut.posted =>
               /\ hpc = "responded"
               /\ resp.status = 413
               /\ calls = <<>>

\* an image above the cap was posted and refused
HardCapAtTransportWitness ==
    /\ Rasterized
    /\ unitOut.posted
    /\ unitOut.base64Len = 6991190
    /\ resp.status = 413

\* the call of normalizeMime was made
Normalized == unitOut # NoUnit /\ unitOut.fn = "normalizeMime"

KnownMimes == {"application/pdf", "image/jpeg", "image/png", "image/webp",
               "image/gif"}

\* declared types that say nothing about the file
GenericTypes == {"", "application/octet-stream"}

\* C21: the declared type is preferred; when it is absent or generic the
\* extension decides: an extension pdf, png, webp or gif gives that type;
\* the result is always one of the five types, and it is image/jpeg when
\* neither the declared type nor the extension is recognized.
MimeByTypeThenExtension ==
    Normalized =>
        LET t   == toLowerCase(unitIn.type)
            ext == toLowerCase(unitIn.ext)
        IN  /\ unitOut.mime \in KnownMimes
            /\ t \in KnownMimes => unitOut.mime = t
            /\ t \in GenericTypes /\ ext = "pdf" =>
                   unitOut.mime = "application/pdf"
            /\ t \in GenericTypes /\ ext \in {"png", "webp", "gif"} =>
                   unitOut.mime = "image/" \o ext
            /\ t \notin KnownMimes \cup {"image/jpg"}
               /\ ext \notin {"pdf", "png", "webp", "gif"} =>
                   unitOut.mime = "image/jpeg"

\* C23: when extractInvoice throws after /api/extract has answered, the
\* message is the message of the error that was raised, followed by
\* "Raw: " and an excerpt of the body text cut to the excerpt length
\* whenever there is a body text whose head the message does not hold
\* already, and by nothing otherwise; the pipeline was run once.
FailureCarriesExcerpt ==
    ClientAnswered /\ cpc = "threw" =>
        LET text    == BodyText(resp.body)
            trigger == TryBlock(resp).message
            msg     == clientResult.message
            rest    == SubSeq(msg, Len(trigger) + 1, Len(msg))
            quoted  == text # <<>> /\ IsInfix(SubSeq(text, 1, 1), trigger)
        IN  /\ Len(msg) >= Len(trigger)
            /\ SubSeq(msg, 1, Len(trigger)) = trigger
            /\ quoted => rest = <<>>
            /\ text # <<>> /\ ~quoted =>
                   /\ Len(rest) > 1
                   /\ rest[1] = "\n\nRaw: "
                   /\ Len(rest) - 1 <= ExcerptTokens
                   /\ Tail(rest) = SubSeq(text, 1, Len(rest) - 1)
                   /\ Len(text) <= ExcerptTokens => Tail(rest) = text
            /\ Len(rasterRuns) = 1

\* extractJSON could not parse the completion of a 200 answer, and the
\* error thrown carries an excerpt that is shorter than the body
FailureCarriesExcerptWitness ==
    /\ ClientAnswered
    /\ cpc = "threw"
    /\ resp.status = 200
    /\ "error" \notin DOMAIN resp.body
    /\ Len(resp.body.content) > 0
    /\ Len(BodyText(resp.body)) > ExcerptTokens
    /\ IsInfix(<<"\n\nRaw: ">> \o Slice(BodyText(resp.body)),
               clientResult.message)

\* every token of the texts a response body carries
BodyTokens(body) ==
    LET toks(t) == {t[i] : i \in 1..Len(t)} IN
    (IF "text" \in DOMAIN body THEN toks(body.text) ELSE {})
    \cup (IF "error" \in DOMAIN body
          THEN IF body.error.t = "str" THEN toks(body.error.v)
               ELSE toks(body.error.message)
          ELSE {})
    \cup (IF "content" \in DOMAIN body
          THEN UNION {toks(body.content[i].text) : i \in 1..Len(body.content)}
          ELSE {})
    \cup (IF "provider" \in DOMAIN body THEN {body.provider} ELSE {})
    \cup (IF "stop_reason" \in DOMAIN body THEN {body.stop_reason} ELSE {})

ConfiguredKeys == {anthropicKey, geminiKey} \ {""}

\* C25: whatever the request and whatever the outcome, no text of the
\* response body sent to the browser, and no text of the error the page
\* makes of it, holds the value of ANTHROPIC_API_KEY or GEMINI_API_KEY; a
\* key is only ever put into the upstream fetch of its own provider.
KeysStayOnServer ==
    /\ BodyTokens(resp.body) \cap ConfiguredKeys = {}
    /\ cpc = "threw" =>
           {clientResult.message[i] : i \in 1..Len(clientResult.message)}
               \cap ConfiguredKeys = {}
    /\ \A i \in 1..Len(calls) : calls[i].key = KeyOf(calls[i].provider)

\* both keys were sent upstream, both providers failed, and the 502 answer
\* has reached the page
KeysStayOnServerWitness ==
    /\ ClientAnswered
    /\ resp.status = 502
    /\ Len(calls) = 2
    /\ \A i \in 1..2 : calls[i].key # ""
    /\ cpc = "threw"

\* C22: whatever the interleaving of the pdfToImageBase64 calls, the script
\* of PDF.js is appended to the document at most once; a call that arrives
\* while the script is loading waits for that load.
ScriptLoadedOnce == scriptLoads <= 1

ReviewIdxValid ==
    reviewIdx # NullIdx => reviewIdx \in 0..(Len(queue) - 1)

\* C27: the edit of a saved invoice (editSavedIdx and editSavedData set by
\* openSavedForEdit) is ended only by updateSaved, by cancelSavedEdit or by
\* the user selecting an entry of the queue; neither the completion of an
\* extraction nor a call of addFiles sets editSavedIdx or editSavedData
\* back to null.
EditEndedByUserOnly ==
    [][editSavedIdx # NullIdx
       /\ (editSavedIdx' = NullIdx \/ editSavedData' = NoData)
       => \/ updateSaved
          \/ cancelSavedEdit
          \/ \E idx \in 0..(MaxCreated - 1) : SelectQueue(idx)]_vars

\* C28: no entry of the queue has been appended to the saved list more than
\* once (each file of the model has its own name, so two saved invoices of
\* one name come from one entry): an entry whose status is "saved" is not
\* saved again.
SavedOncePerEntry ==
    \A i, j \in 1..Len(saved) :
        i # j => saved[i].fileName # saved[j].fileName

\* C29: when an extraction completes, its outcome (status ready with the
\* record extracted, or status error with the message) is written to the
\* entry that has the id of the document and to no other: the other
\* entries keep their form and line items, and their status too, except
\* that the loop of addFiles then marks the next document of its batch as
\* extracting; when the entry is no longer in the queue, the completion
\* leaves the queue as it is but for that mark.
OutcomeAppliedById ==
    [][\A k \in 1..Len(tasks), ok \in BOOLEAN :
          Settle(k, ok) =>
              LET t    == tasks[k]
                  e    == t.entries[t.i]
                  more == t.kind = "addFiles" /\ t.i < Len(t.entries)
                  nxt  == t.entries[IF more THEN t.i + 1 ELSE t.i]
              IN  /\ Len(queue') = Len(queue)
                  /\ \A j \in 1..Len(queue) :
                         IF queue[j].id = e.id
                         THEN queue'[j] =
                                 IF ok
                                 THEN [queue[j] EXCEPT !.status = "ready",
                                                       !.form = e.id,
                                                       !.lineItems = e.id]
                                 ELSE [queue[j] EXCEPT !.status = "error",
                                                       !.errorMsg = "failed"]
                         ELSE IF more /\ queue[j].id = nxt.id
                         THEN queue'[j] = [queue[j] EXCEPT !.status = "extracting"]
                         ELSE queue'[j] = queue[j]]_vars

\* the record of the second document is on its entry, which has moved to
\* the head of the queue, and the entry behind it has no record
OutcomeAppliedByIdWitness ==
    /\ Len(queue) >= 2
    /\ queue[1].id = 2
    /\ queue[1].status = "ready"
    /\ queue[1].form = 2
    /\ queue[1].lineItems = 2
    /\ queue[2].form = 0
    /\ queue[2].status \in {"pending", "extracting"}

\* the entry of the document with this id is in the queue with one of
\* these statuses
HasStatus(id, statuses) ==
    \E j \in 1..Len(queue) : queue[j].id = id /\ queue[j].status \in statuses

InQueue(id) == \E j \in 1..Len(queue) : queue[j].id = id

\* the moves of the status of one entry: pending to extracting, extracting
\* to ready or error, error to extracting; and to saved by saveQueue
StatusMoves ==
    [][\A i \in 1..Len(queue), j \in 1..Len(queue') :
          queue[i].id = queue'[j].id /\ queue[i].status # queue'[j].status =>
              \/ <<queue[i].status, queue'[j].status>> \in
                     {<<"pending", "extracting">>, <<"extracting", "ready">>,
                      <<"extracting", "error">>, <<"error", "extracting">>}
              \/ queue'[j].status = "saved" /\ saveQueue]_vars

\* every entry that waits for its extraction gets its outcome, or leaves
\* the queue
EveryEntrySettles ==
    \A id \in 1..MaxCreated :
        HasStatus(id, {"pending", "extracting"})
            ~> (~InQueue(id) \/ HasStatus(id, {"ready", "error"}))

\* C30: when every rasterization and every request ends, every entry added
\* by addFiles or retried by retryExtract leaves pending and extracting for
\* ready or error (or is removed), also when an earlier entry of its batch
\* has failed; and the status of an entry only moves from pending to
\* extracting, from extracting to ready or error, from error to extracting,
\* and to saved by saveQueue.
ExtractionLifecycle == StatusMoves /\ EveryEntrySettles

====
